---------------------------- MODULE Spec2Model ----------------------------
(***************************************************************************)
(* sf::Vector2<T> (SFML/System/Vector2.hpp and Vector2.inl) for the two    *)
(* integer instantiations the header names, Vector2i = Vector2<int> and    *)
(* Vector2u = Vector2<unsigned int>, with the coordinate type scaled down   *)
(* from 32 to Width bits.                                                   *)
(*                                                                          *)
(* A behaviour is one program run: the objects a, b and c are constructed,  *)
(* then one statement calls an operation of the class.  The call returns    *)
(* (status "ok"), fails its assert (status "assert": the header includes    *)
(* <cassert> and does not define NDEBUG) or is stopped by a trap of the     *)
(* arithmetic (status "trap").                                              *)
(*                                                                          *)
(* What C++ leaves undefined (signed overflow, integer division by zero,    *)
(* a floating-point value converted to an integer type that cannot hold     *)
(* it) is decided by the variable build, which ranges over the outcomes     *)
(* compilers and processors give:                                           *)
(*   "wrap"     signed overflow wraps; a faulting integer division traps;   *)
(*              an unrepresentable conversion gives the minimum of int and  *)
(*              wraps for unsigned int (x86-64);                            *)
(*   "trapv"    as "wrap", but signed overflow traps (-ftrapv);             *)
(*   "nofault"  signed overflow wraps; division by zero gives 0 and         *)
(*              MinT / -1 gives MinT; conversions saturate (AArch64).       *)
(* In the member functions of Vector2.inl that name `vector` or `lhs`       *)
(* (left over from the free-function versions), these are read as *this.    *)
(***************************************************************************)
EXTENDS Integers, FiniteSets, Sequences, TLC

\* Number of bits of the coordinate type (int and unsigned int have 32).
Width == 3

Types == {"int", "unsigned"}
Builds == {"wrap", "trapv", "nofault"}
Objs == {"a", "b", "c"}

VARIABLES
    T,       \* the instantiation: "int" (Vector2i) or "unsigned" (Vector2u)
    build,   \* how the build resolves undefined behaviour
    mem,     \* the objects: mem[o] is the Vector2<T> named o
    pre,     \* the objects as constructed, before the statement ran
    call,    \* the statement that ran: operation and operands
    ret,     \* what the call returned
    status   \* "ready", then "ok", "assert" or "trap"

vars == <<T, build, mem, pre, call, ret, status>>

----------------------------------------------------------------------------
(* The coordinate type T and its arithmetic.                               *)

Mod == 2 ^ Width
MinT == IF T = "int" THEN -(2 ^ (Width - 1)) ELSE 0
MaxT == IF T = "int" THEN 2 ^ (Width - 1) - 1 ELSE Mod - 1
TVals == MinT .. MaxT

\* The marker of a value whose computation trapped; it is outside both ranges.
Trap == Mod

Abs(n) == IF n < 0 THEN -n ELSE n

\* The value of T congruent to n modulo 2^Width.
Wrapped(n) == ((n - MinT) % Mod) + MinT

\* The result in T of +, - or * whose exact result is n.
Arith(n) ==
    IF n \in TVals THEN n
    ELSE IF T = "int" /\ build = "trapv" THEN Trap
    ELSE Wrapped(n)

AddT(x, y) == IF x = Trap \/ y = Trap THEN Trap ELSE Arith(x + y)
SubT(x, y) == IF x = Trap \/ y = Trap THEN Trap ELSE Arith(x - y)
MulT(x, y) == IF x = Trap \/ y = Trap THEN Trap ELSE Arith(x * y)
NegT(x) == IF x = Trap THEN Trap ELSE Arith(-x)

\* n / d rounded toward zero (d > 0 or d < 0).
TruncDiv(n, d) ==
    LET q == Abs(n) \div Abs(d)
    IN  IF (n < 0) = (d < 0) THEN q ELSE -q

\* x / y in T.
DivT(x, y) ==
    IF x = Trap \/ y = Trap THEN Trap
    ELSE IF y = 0 THEN (IF build = "nofault" THEN 0 ELSE Trap)
    ELSE IF T = "int" /\ x = MinT /\ y = -1
         THEN (IF build = "nofault" THEN MinT ELSE Trap)
    ELSE TruncDiv(x, y)

\* A floating-point value converted to T, n being the value rounded toward zero.
ToT(n) ==
    IF n = Trap THEN Trap
    ELSE IF n \in TVals THEN n
    ELSE IF build = "nofault" THEN (IF n < MinT THEN MinT ELSE MaxT)
    ELSE IF T = "int" THEN MinT
    ELSE Wrapped(n)

\* A NaN converted to T.
NaNToT == IF build = "nofault" THEN 0 ELSE MinT

\* sqrt(n) rounded toward zero, n >= 0.
Isqrt(n) == CHOOSE r \in 0 .. n : r * r <= n /\ (r + 1) * (r + 1) > n

----------------------------------------------------------------------------
(* Angle (SFML/System/Angle.hpp): an angle is modelled by its degrees, and *)
(* an angle returned by radians(atan2(Y, X)) by the pair of arguments.     *)

Angles == {0, 45, 90, 135, 180, 225, 270, 315}

Unit == 10 ^ 7

\* cos(angle.asRadians()) and sin(angle.asRadians()), in units of 1/Unit.
cos(angle) ==
    CASE angle = 0 -> Unit
      [] angle \in {45, 315} -> 7071068
      [] angle \in {90, 270} -> 0
      [] angle \in {135, 225} -> -7071068
      [] angle = 180 -> -Unit

sin(angle) ==
    CASE angle \in {0, 180} -> 0
      [] angle \in {45, 135} -> 7071068
      [] angle = 90 -> Unit
      [] angle \in {225, 315} -> -7071068
      [] angle = 270 -> -Unit

\* The product of a T and a float given in units of 1/Unit, converted to T.
TimesFloat(x, f) == IF x = Trap THEN Trap ELSE ToT(TruncDiv(x * f, Unit))

radians(Y, X) == [atan2y |-> Y, atan2x |-> X]

----------------------------------------------------------------------------
(* Vector2<T>: constructors, member functions and operators, in the order  *)
(* of Vector2.inl.  A member function takes the receiver as its first      *)
(* argument.                                                               *)

Vector2(X, Y) == [x |-> X, y |-> Y]
Vector2Default == [x |-> 0, y |-> 0]

Vecs == [x : TVals, y : TVals]

HasTrap(v) == v.x = Trap \/ v.y = Trap

\* What a call gives: a value, or a failed assertion.
Returned(val) == [failed |-> FALSE, val |-> val]
AssertionFailed == [failed |-> TRUE, val |-> "none"]

\* Negate with the y coordinate copied instead of negated.
NegateKeepsY(right) == Vector2(NegT(right.x), right.y)

Negate(right) == Vector2(NegT(right.x), NegT(right.y))

Plus(left, right) == Vector2(AddT(left.x, right.x), AddT(left.y, right.y))

Minus(left, right) == Vector2(SubT(left.x, right.x), SubT(left.y, right.y))

Times(left, right) == Vector2(MulT(left.x, right), MulT(left.y, right))

ScalarTimes(left, right) == Vector2(MulT(right.x, left), MulT(right.y, left))

\* Divide with the y coordinate computed from left.x.
DivideUsesXTwice(left, right) == Vector2(DivT(left.x, right), DivT(left.x, right))

Divide(left, right) == Vector2(DivT(left.x, right), DivT(left.y, right))

Equal(left, right) == (left.x = right.x) /\ (left.y = right.y)

\* NotEqual requiring both coordinates to differ.
NotEqualBoth(left, right) == (left.x # right.x) /\ (left.y # right.y)

NotEqual(left, right) == (left.x # right.x) \/ (left.y # right.y)

dot(this, rhs) == AddT(MulT(this.x, rhs.x), MulT(this.y, rhs.y))

\* cross with the two products added.
crossAdds(this, rhs) == AddT(MulT(this.x, rhs.y), MulT(this.y, rhs.x))

cross(this, rhs) == SubT(MulT(this.x, rhs.y), MulT(this.y, rhs.x))

lengthSq(this) == dot(this, this)

length(this) ==
    LET sq == lengthSq(this)
    IN  IF sq = Trap THEN Trap
        ELSE IF sq < 0 THEN NaNToT
        ELSE Isqrt(sq)

\* withLength without the division by length().
withLengthUndivided(this, newLength) ==
    IF ~NotEqual(this, Vector2Default) THEN AssertionFailed
    ELSE Returned(Times(this, newLength))

withLength(this, newLength) ==
    IF ~NotEqual(this, Vector2Default) THEN AssertionFailed
    ELSE Returned(Divide(Times(this, newLength), length(this)))

\* normalized whose assert looks at x only.
normalizedChecksX(this) ==
    IF this.x = 0 THEN AssertionFailed
    ELSE Returned(Divide(this, length(this)))

normalized(this) ==
    IF ~NotEqual(this, Vector2Default) THEN AssertionFailed
    ELSE Returned(Divide(this, length(this)))

signedAngleTo(this, rhs) ==
    IF ~NotEqual(this, Vector2Default) THEN AssertionFailed
    ELSE IF ~NotEqual(rhs, Vector2Default) THEN AssertionFailed
    ELSE Returned(radians(cross(this, rhs), dot(this, rhs)))

polarAngle(this) ==
    IF ~NotEqual(this, Vector2Default) THEN AssertionFailed
    ELSE Returned(radians(this.y, this.x))

\* withPolarAngle without the factor vecLength.
withPolarAngleOfUnit(this, newAngle) ==
    Vector2(ToT(TruncDiv(cos(newAngle), Unit)), ToT(TruncDiv(sin(newAngle), Unit)))

withPolarAngle(this, newAngle) ==
    LET vecLength == length(this)
    IN  Vector2(TimesFloat(vecLength, cos(newAngle)),
                TimesFloat(vecLength, sin(newAngle)))

\* rotatedBy leaving s * x out of the new y.
rotatedByDropsSine(this, angle) ==
    LET c == ToT(TruncDiv(cos(angle), Unit))
        s == ToT(TruncDiv(sin(angle), Unit))
    IN  Vector2(SubT(MulT(c, this.x), MulT(s, this.y)), MulT(c, this.y))

\* rotatedBy computing y from the x it has just computed.
rotatedByOverwritten(this, angle) ==
    LET c == ToT(TruncDiv(cos(angle), Unit))
        s == ToT(TruncDiv(sin(angle), Unit))
        newX == SubT(MulT(c, this.x), MulT(s, this.y))
    IN  Vector2(newX, AddT(MulT(s, newX), MulT(c, this.y)))

rotatedBy(this, angle) ==
    LET c == ToT(TruncDiv(cos(angle), Unit))
        s == ToT(TruncDiv(sin(angle), Unit))
    IN  Vector2(SubT(MulT(c, this.x), MulT(s, this.y)),
                AddT(MulT(s, this.x), MulT(c, this.y)))

perpendicular(this) == Vector2(NegT(this.y), this.x)

\* projectedOnto multiplying by axis before it divides by lengthSq.
projectedOntoTimesFirst(this, axis) ==
    IF ~NotEqual(axis, Vector2Default) THEN AssertionFailed
    ELSE Returned(Divide(ScalarTimes(dot(this, axis), axis), lengthSq(axis)))

projectedOnto(this, axis) ==
    IF ~NotEqual(axis, Vector2Default) THEN AssertionFailed
    ELSE Returned(ScalarTimes(DivT(dot(this, axis), lengthSq(axis)), axis))

cwiseMul(this, rhs) == Vector2(MulT(this.x, rhs.x), MulT(this.y, rhs.y))

\* cwiseDiv whose assert passes when either component of rhs is not zero.
cwiseDivChecksEither(this, rhs) ==
    IF ~(rhs.x # 0 \/ rhs.y # 0) THEN AssertionFailed
    ELSE Returned(Vector2(DivT(this.x, rhs.x), DivT(this.y, rhs.y)))

cwiseDiv(this, rhs) ==
    IF ~(rhs.x # 0 /\ rhs.y # 0) THEN AssertionFailed
    ELSE Returned(Vector2(DivT(this.x, rhs.x), DivT(this.y, rhs.y)))

\* The in-place operators act on the objects: left and right name objects
\* (references, which may name the same object), and the operator returns
\* the reference left.  Each gives the objects after its two assignments.
\* PlusAssign adding right.x to both coordinates.
PlusAssignUsesXTwice(m, left, right) ==
    LET m1 == [m EXCEPT ![left].x = AddT(m[left].x, m[right].x)]
    IN  [m1 EXCEPT ![left].y = AddT(m1[left].y, m1[right].x)]

PlusAssign(m, left, right) ==
    LET m1 == [m EXCEPT ![left].x = AddT(m[left].x, m[right].x)]
    IN  [m1 EXCEPT ![left].y = AddT(m1[left].y, m1[right].y)]

MinusAssign(m, left, right) ==
    LET m1 == [m EXCEPT ![left].x = SubT(m[left].x, m[right].x)]
    IN  [m1 EXCEPT ![left].y = SubT(m1[left].y, m1[right].y)]

\* right is a T passed by value.
TimesAssign(m, left, right) ==
    LET m1 == [m EXCEPT ![left].x = MulT(m[left].x, right)]
    IN  [m1 EXCEPT ![left].y = MulT(m1[left].y, right)]

DivideAssign(m, left, right) ==
    LET m1 == [m EXCEPT ![left].x = DivT(m[left].x, right)]
    IN  [m1 EXCEPT ![left].y = DivT(m1[left].y, right)]

----------------------------------------------------------------------------
(* The program: construction of the objects, then one statement.           *)

NoCall == [name |-> "none", lhs |-> "", mid |-> "", rhs |-> "", k |-> 0, angle |-> 0]

Statement(name, lhs, mid, rhs, k, angle) ==
    [name |-> name, lhs |-> lhs, mid |-> mid, rhs |-> rhs, k |-> k, angle |-> angle]

Constructed(va, vb, vc) ==
    /\ mem = [o \in Objs |-> CASE o = "a" -> va [] o = "b" -> vb [] o = "c" -> vc]
    /\ pre = mem
    /\ call = NoCall
    /\ ret = "none"
    /\ status = "ready"

\* a is constructed from coordinates, b and c by the default constructor.
InitUnary ==
    /\ T \in Types
    /\ build \in Builds
    /\ \E va \in Vecs : Constructed(va, Vector2Default, Vector2Default)

\* The coordinates at the ends of the range of T and around zero.
Corners == {MinT, -1, 0, 1, MaxT} \cap TVals
\* Vectors of corner coordinates and of the coordinate 2.
CornerVecs == [x : Corners \cup {2}, y : Corners \cup {2}]

\* a and b are constructed from coordinates, c by the default constructor.
InitBinary ==
    /\ T \in Types
    /\ build \in Builds
    /\ \E va \in Vecs, vb \in CornerVecs : Constructed(va, vb, Vector2Default)

\* a, b and c are constructed from coordinates.
InitTernary ==
    /\ T \in Types
    /\ build \in Builds
    /\ \E va, vb, vc \in [x : Corners \ {-1}, y : Corners \ {-1}] :
           Constructed(va, vb, vc)

\* The statement st ends: it returned val leaving the objects m, unless an
\* assertion failed or the arithmetic trapped (trapped), which ends the run.
Ends(st, failed, trapped, m, val) ==
    /\ status = "ready"
    /\ call' = st
    /\ status' = IF failed THEN "assert" ELSE IF trapped THEN "trap" ELSE "ok"
    /\ ret' = IF failed \/ trapped THEN "none" ELSE val
    /\ mem' = IF failed \/ trapped THEN mem ELSE m
    /\ UNCHANGED <<T, build, pre>>

\* A statement whose value is a vector, a T, a bool or an angle.
EndsVector(st, v) == Ends(st, FALSE, HasTrap(v), mem, v)
EndsScalar(st, x) == Ends(st, FALSE, x = Trap, mem, x)
EndsBool(st, bool) == Ends(st, FALSE, FALSE, mem, bool)
EndsChecked(st, r) ==
    Ends(st, r.failed, ~r.failed /\ HasTrap(r.val), mem, r.val)
EndsAngle(st, r) ==
    Ends(st, r.failed,
         ~r.failed /\ (r.val.atan2y = Trap \/ r.val.atan2x = Trap), mem, r.val)
\* An in-place operator: the objects become m and the reference left returns.
EndsInPlace(st, m) ==
    Ends(st, FALSE, \E o \in Objs : HasTrap(m[o]), m, st.lhs)

CallNegate(o) ==
    EndsVector(Statement("-v", "", "", o, 0, 0), Negate(mem[o]))

CallTimes(o) ==
    \E k \in TVals :
        EndsVector(Statement("v*k", o, "", "", k, 0), Times(mem[o], k))

CallScalarTimes(o) ==
    \E k \in TVals :
        EndsVector(Statement("k*v", "", "", o, k, 0), ScalarTimes(k, mem[o]))

CallDivide(o) ==
    \E k \in TVals :
        EndsVector(Statement("v/k", o, "", "", k, 0), Divide(mem[o], k))

CallTimesAssign(o, K) ==
    \E k \in K :
        EndsInPlace(Statement("v*=k", o, "", "", k, 0), TimesAssign(mem, o, k))

CallDivideAssign(o, K) ==
    \E k \in K :
        EndsInPlace(Statement("v/=k", o, "", "", k, 0), DivideAssign(mem, o, k))

CallLength(o) ==
    EndsScalar(Statement("length", o, "", "", 0, 0), length(mem[o]))

CallLengthSq(o) ==
    EndsScalar(Statement("lengthSq", o, "", "", 0, 0), lengthSq(mem[o]))

CallWithLength(o) ==
    \E k \in TVals :
        EndsChecked(Statement("withLength", o, "", "", k, 0), withLength(mem[o], k))

CallNormalized(o) ==
    EndsChecked(Statement("normalized", o, "", "", 0, 0), normalized(mem[o]))

CallPolarAngle(o) ==
    EndsAngle(Statement("polarAngle", o, "", "", 0, 0), polarAngle(mem[o]))

CallWithPolarAngle(o) ==
    \E angle \in Angles :
        EndsVector(Statement("withPolarAngle", o, "", "", 0, angle),
                   withPolarAngle(mem[o], angle))

CallRotatedBy(o) ==
    \E angle \in Angles :
        EndsVector(Statement("rotatedBy", o, "", "", 0, angle),
                   rotatedBy(mem[o], angle))

CallPerpendicular(o) ==
    EndsVector(Statement("perpendicular", o, "", "", 0, 0), perpendicular(mem[o]))

CallPlus(l, r) ==
    EndsVector(Statement("v+w", l, "", r, 0, 0), Plus(mem[l], mem[r]))

CallMinus(l, r) ==
    EndsVector(Statement("v-w", l, "", r, 0, 0), Minus(mem[l], mem[r]))

CallEqual(l, r) ==
    EndsBool(Statement("v==w", l, "", r, 0, 0), Equal(mem[l], mem[r]))

CallNotEqual(l, r) ==
    EndsBool(Statement("v!=w", l, "", r, 0, 0), NotEqual(mem[l], mem[r]))

CallDot(l, r) ==
    EndsScalar(Statement("dot", l, "", r, 0, 0), dot(mem[l], mem[r]))

CallCross(l, r) ==
    EndsScalar(Statement("cross", l, "", r, 0, 0), cross(mem[l], mem[r]))

CallCwiseMul(l, r) ==
    EndsVector(Statement("cwiseMul", l, "", r, 0, 0), cwiseMul(mem[l], mem[r]))

CallCwiseDiv(l, r) ==
    EndsChecked(Statement("cwiseDiv", l, "", r, 0, 0), cwiseDiv(mem[l], mem[r]))

CallProjectedOnto(l, r) ==
    EndsChecked(Statement("projectedOnto", l, "", r, 0, 0),
                projectedOnto(mem[l], mem[r]))

CallSignedAngleTo(l, r) ==
    EndsAngle(Statement("signedAngleTo", l, "", r, 0, 0),
              signedAngleTo(mem[l], mem[r]))

NextUnary ==
    \/ CallNegate("a")
    \/ CallTimes("a")
    \/ CallScalarTimes("a")
    \/ CallDivide("a")
    \/ CallTimesAssign("a", TVals)
    \/ CallDivideAssign("a", TVals)
    \/ CallLength("a")
    \/ CallLengthSq("a")
    \/ CallWithLength("a")
    \/ CallNormalized("a")
    \/ CallPolarAngle("a")
    \/ CallWithPolarAngle("a")
    \/ CallRotatedBy("a")
    \/ CallPerpendicular("a")
    \/ CallMinus("a", "a")

SpecUnary == InitUnary /\ [][NextUnary]_vars

NextBinary ==
    \/ CallPlus("a", "b")
    \/ CallMinus("a", "b")
    \/ CallEqual("a", "b")
    \/ CallNotEqual("a", "b")
    \/ CallDot("a", "b")
    \/ CallCross("a", "b")
    \/ CallCwiseMul("a", "b")
    \/ CallCwiseDiv("a", "b")
    \/ CallProjectedOnto("a", "b")
    \/ CallSignedAngleTo("a", "b")

SpecBinary == InitBinary /\ [][NextBinary]_vars

\* The member functions that assert a precondition.
NextChecked ==
    \/ CallWithLength("a")
    \/ CallNormalized("a")
    \/ CallPolarAngle("a")
    \/ CallSignedAngleTo("a", "b")
    \/ CallProjectedOnto("a", "b")
    \/ CallCwiseDiv("a", "b")

SpecChecked == InitBinary /\ [][NextChecked]_vars

CallPlusAssign(l, r) ==
    EndsInPlace(Statement("v+=w", l, "", r, 0, 0), PlusAssign(mem, l, r))

CallMinusAssign(l, r) ==
    EndsInPlace(Statement("v-=w", l, "", r, 0, 0), MinusAssign(mem, l, r))

\* l += m += r, which is l += (m += r): the inner operator returns the
\* reference m, the right operand of the outer one.
CallChain(l, m, r) ==
    LET m1 == PlusAssign(mem, m, r)
    IN  EndsInPlace(Statement("u+=v+=w", l, m, r, 0, 0),
                    IF \E o \in Objs : HasTrap(m1[o]) THEN m1
                    ELSE PlusAssign(m1, l, m))

NextInPlace ==
    \/ \E l, r \in Objs : CallPlusAssign(l, r)
    \/ \E l, r \in Objs : CallMinusAssign(l, r)
    \/ CallTimesAssign("a", Corners)
    \/ CallDivideAssign("a", Corners)
    \/ \E l, m, r \in Objs : CallChain(l, m, r)

SpecInPlace == InitTernary /\ [][NextInPlace]_vars

Init == InitUnary \/ InitBinary \/ InitTernary

Next == NextUnary \/ NextBinary \/ NextChecked \/ NextInPlace

Spec == Init /\ [][Next]_vars

----------------------------------------------------------------------------
(* The properties.  Lhs, Mid and Rhs are the operands as constructed.      *)

Lhs == pre[call.lhs]
Mid == pre[call.mid]
Rhs == pre[call.rhs]

InRange(n) == n \in TVals

\* C1: an in-place operator (+=, -=, *=, /=) that returns changes only the
\* object left names: left becomes the pure operator's result on the old left
\* and the right operand, every other object (the right operand, when it is
\* another object than left) is unchanged, and the reference returned is left;
\* and u += v += w on three objects leaves w unchanged, v = old v + w and
\* u = old u + old v + w.
C1_InPlaceFrame ==
    /\ (status = "ok" /\ call.name \in {"v+=w", "v-=w", "v*=k", "v/=k"}) =>
          /\ \A o \in Objs \ {call.lhs} : mem[o] = pre[o]
          /\ mem[call.lhs] =
                CASE call.name = "v+=w" -> Plus(Lhs, Rhs)
                  [] call.name = "v-=w" -> Minus(Lhs, Rhs)
                  [] call.name = "v*=k" -> Times(Lhs, call.k)
                  [] call.name = "v/=k" -> Divide(Lhs, call.k)
          /\ ret = call.lhs
    /\ (status = "ok" /\ call.name = "u+=v+=w"
        /\ Cardinality({call.lhs, call.mid, call.rhs}) = 3) =>
          /\ mem[call.rhs] = Rhs
          /\ mem[call.mid] = Vector2(Wrapped(Mid.x + Rhs.x), Wrapped(Mid.y + Rhs.y))
          /\ mem[call.lhs] = Vector2(Wrapped(Lhs.x + Mid.x + Rhs.x),
                                     Wrapped(Lhs.y + Mid.y + Rhs.y))
          /\ ret = call.lhs

\* a += b += c returned, on three non-zero vectors with different x and y.
C1_Witness ==
    /\ status = "ok"
    /\ call = Statement("u+=v+=w", "a", "b", "c", 0, 0)
    /\ \A o \in Objs : pre[o].x # 0 /\ pre[o].y # 0 /\ pre[o].x # pre[o].y
    /\ mem["a"] # pre["a"]

\* C2: v + (-v) and v - v equal the default-constructed vector (0, 0), under
\* operator ==, for every v for which the expression evaluates.
C2_Cancels ==
    /\ (status = "ok" /\ call.name = "-v") =>
          LET sum == Plus(Rhs, ret)
          IN  ~HasTrap(sum) => Equal(sum, Vector2Default)
    /\ (status = "ok" /\ call.name = "v-w" /\ call.lhs = call.rhs) =>
          Equal(ret, Vector2Default)

\* -v returned for a v with two non-zero coordinates, and v + (-v) evaluates.
C2_Witness ==
    /\ status = "ok"
    /\ call.name = "-v"
    /\ Rhs.x # 0 /\ Rhs.y # 0
    /\ ~HasTrap(Plus(Rhs, ret))

\* C3, as claimed: for every v and every s # 0, (v * s) / s == v.
C3_Original ==
    (status = "ok" /\ call.name = "v*k" /\ call.k # 0) =>
        LET back == Divide(ret, call.k)
        IN  ~HasTrap(back) /\ Equal(back, Lhs)

\* C3, amended: for every v and every s # 0 such that neither v.x * s nor
\* v.y * s is outside the range of the coordinate type, (v * s) / s == v.
C3_RoundTripInRange ==
    (/\ status = "ok" /\ call.name = "v*k" /\ call.k # 0
     /\ InRange(Lhs.x * call.k) /\ InRange(Lhs.y * call.k)) =>
        LET back == Divide(ret, call.k)
        IN  ~HasTrap(back) /\ Equal(back, Lhs)

\* v * s returned for s other than 0 and 1, in range, v having two non-zero
\* coordinates.
C3_Witness ==
    /\ status = "ok"
    /\ call.name = "v*k"
    /\ call.k \notin {0, 1}
    /\ Lhs.x # 0 /\ Lhs.y # 0
    /\ InRange(Lhs.x * call.k) /\ InRange(Lhs.y * call.k)

\* C4: v.dot(w) is x*rhs.x + y*rhs.y and equals w.dot(v); v.cross(w) is
\* x*rhs.y - y*rhs.x and equals -(w.cross(v)); each whenever both sides
\* evaluate.
C4_DotCross ==
    /\ (status = "ok" /\ call.name = "dot") =>
          /\ ret = AddT(MulT(Lhs.x, Rhs.x), MulT(Lhs.y, Rhs.y))
          /\ dot(Rhs, Lhs) # Trap => ret = dot(Rhs, Lhs)
    /\ (status = "ok" /\ call.name = "cross") =>
          /\ ret = SubT(MulT(Lhs.x, Rhs.y), MulT(Lhs.y, Rhs.x))
          /\ NegT(cross(Rhs, Lhs)) # Trap => ret = NegT(cross(Rhs, Lhs))

\* v.cross(w) returned a non-zero value and -(w.cross(v)) evaluates.
C4_Witness ==
    /\ status = "ok"
    /\ call.name = "cross"
    /\ ret # 0
    /\ NegT(cross(Rhs, Lhs)) # Trap

\* C5: a == b holds exactly when a.x = b.x and a.y = b.y, == is reflexive and
\* symmetric, and a != b holds exactly when a == b does not.
C5_Equality ==
    /\ (status = "ok" /\ call.name = "v==w") =>
          /\ ret = (Lhs.x = Rhs.x /\ Lhs.y = Rhs.y)
          /\ Equal(Lhs, Lhs) /\ Equal(Rhs, Rhs)
          /\ ret = Equal(Rhs, Lhs)
          /\ NotEqual(Lhs, Rhs) = ~ret
    /\ (status = "ok" /\ call.name = "v!=w") =>
          /\ ret = ~Equal(Lhs, Rhs)
          /\ ret = ~(Lhs.x = Rhs.x /\ Lhs.y = Rhs.y)

\* a != b returned true for two vectors that differ in one coordinate only.
C5_Witness ==
    /\ status = "ok"
    /\ call.name = "v!=w"
    /\ Lhs.x = Rhs.x /\ Lhs.y # Rhs.y
    /\ ret = TRUE

IsZero(v) == v.x = 0 /\ v.y = 0

\* x*x + y*y without the limits of T.
SumOfSquares(v) == v.x * v.x + v.y * v.y

\* C6: withLength, normalized and polarAngle fail their assertion exactly
\* when the receiver is (0, 0), signedAngleTo exactly when the receiver or
\* rhs is (0, 0), projectedOnto exactly when axis is (0, 0); a call that
\* passes its assertion returns the value of its return expression, nothing
\* else in its place, and ends in no other way as long as the arithmetic of
\* that expression stays within the coordinate type.
C6_NonZeroAsserts ==
    /\ (status # "ready" /\ call.name \in {"withLength", "normalized", "polarAngle"})
          => (status = "assert" <=> IsZero(Lhs))
    /\ (status # "ready" /\ call.name = "signedAngleTo")
          => (status = "assert" <=> (IsZero(Lhs) \/ IsZero(Rhs)))
    /\ (status # "ready" /\ call.name = "projectedOnto")
          => (status = "assert" <=> IsZero(Rhs))
    /\ (status = "ok" /\ call.name = "withLength")
          => ret = Divide(Times(Lhs, call.k), length(Lhs))
    /\ (status = "ok" /\ call.name = "normalized")
          => ret = Divide(Lhs, length(Lhs))
    /\ (status = "ok" /\ call.name = "polarAngle")
          => ret = radians(Lhs.y, Lhs.x)
    /\ (status = "ok" /\ call.name = "signedAngleTo")
          => ret = radians(cross(Lhs, Rhs), dot(Lhs, Rhs))
    /\ (status = "trap" /\ call.name = "withLength")
          => ~(/\ InRange(SumOfSquares(Lhs))
               /\ InRange(Lhs.x * call.k) /\ InRange(Lhs.y * call.k))
    /\ (status = "trap" /\ call.name = "normalized")
          => ~InRange(SumOfSquares(Lhs))
    /\ (status = "trap" /\ call.name = "signedAngleTo")
          => /\ T = "int" /\ build = "trapv"
             /\ ~(/\ InRange(Lhs.x * Rhs.y - Lhs.y * Rhs.x)
                  /\ InRange(Lhs.x * Rhs.x + Lhs.y * Rhs.y)
                  /\ \A p \in {Lhs.x * Rhs.y, Lhs.y * Rhs.x,
                               Lhs.x * Rhs.x, Lhs.y * Rhs.y} : InRange(p))
    /\ ~(status = "trap" /\ call.name = "polarAngle")

\* signedAngleTo failed its assertion on a non-zero receiver and a zero rhs.
C6_Witness ==
    /\ status = "assert"
    /\ call.name = "signedAngleTo"
    /\ Lhs.x = 0 /\ Lhs.y # 0
    /\ IsZero(Rhs)

\* C7: cwiseDiv fails its assertion exactly when at least one component of
\* rhs is 0; when it passes, no divisor is 0 and the call returns
\* (x / rhs.x, y / rhs.y), each quotient truncated toward zero, the one other
\* end being the trap of int's minimum divided by -1.
C7_CwiseDiv ==
    /\ (status # "ready" /\ call.name = "cwiseDiv")
          => (status = "assert" <=> (Rhs.x = 0 \/ Rhs.y = 0))
    /\ (status = "ok" /\ call.name = "cwiseDiv")
          => /\ Rhs.x # 0 /\ Rhs.y # 0
             /\ ret = Vector2(DivT(Lhs.x, Rhs.x), DivT(Lhs.y, Rhs.y))
             /\ InRange(TruncDiv(Lhs.x, Rhs.x)) => ret.x = TruncDiv(Lhs.x, Rhs.x)
             /\ InRange(TruncDiv(Lhs.y, Rhs.y)) => ret.y = TruncDiv(Lhs.y, Rhs.y)
    /\ (status = "trap" /\ call.name = "cwiseDiv")
          => /\ T = "int" /\ build # "nofault"
             /\ \/ Lhs.x = MinT /\ Rhs.x = -1
                \/ Lhs.y = MinT /\ Rhs.y = -1

\* cwiseDiv failed its assertion on an rhs with only one component 0.
C7_Witness ==
    /\ status = "assert"
    /\ call.name = "cwiseDiv"
    /\ Rhs.x # 0 /\ Rhs.y = 0
    /\ ~IsZero(Lhs)

\* x*rhs.x + y*rhs.y without the limits of T.
SumOfProducts(v, w) == v.x * w.x + v.y * w.y

\* The quotient of projectedOnto without the limits of T, axis not (0, 0).
Quotient(v, axis) == TruncDiv(SumOfProducts(v, axis), SumOfSquares(axis))

\* Every intermediate value of v.projectedOnto(axis) is within T.
ProjectionInRange(v, axis) ==
    /\ InRange(v.x * axis.x) /\ InRange(v.y * axis.y)
    /\ InRange(SumOfProducts(v, axis))
    /\ InRange(SumOfSquares(axis))
    /\ InRange(Quotient(v, axis) * axis.x) /\ InRange(Quotient(v, axis) * axis.y)

\* C8: for a non-zero axis, v.projectedOnto(axis) returns
\* (v.dot(axis) / axis.lengthSq()) * axis, the division done first, in the
\* arithmetic of T; when that arithmetic stays within T the call returns, and
\* the result is the truncated quotient times each coordinate of axis.
C8_ProjectedOnto ==
    /\ (status = "ok" /\ call.name = "projectedOnto") =>
          LET q == DivT(dot(Lhs, Rhs), lengthSq(Rhs))
          IN  ret = Vector2(MulT(q, Rhs.x), MulT(q, Rhs.y))
    /\ (/\ status # "ready" /\ call.name = "projectedOnto"
        /\ ~IsZero(Rhs) /\ ProjectionInRange(Lhs, Rhs)) =>
          /\ status = "ok"
          /\ ret = Vector2(Quotient(Lhs, Rhs) * Rhs.x, Quotient(Lhs, Rhs) * Rhs.y)

\* projectedOnto returned for an axis that is not of unit length, within T,
\* where multiplying by axis before dividing would have given another vector.
C8_Witness ==
    /\ status = "ok"
    /\ call.name = "projectedOnto"
    /\ ProjectionInRange(Lhs, Rhs)
    /\ SumOfSquares(Rhs) > 1
    /\ ret.x # TruncDiv(SumOfProducts(Lhs, Rhs) * Rhs.x, SumOfSquares(Rhs))

\* The quarter turn counter-clockwise: cos = 0 and sin = 1.
QuarterTurn == CHOOSE angle \in Angles : cos(angle) = 0 /\ sin(angle) = Unit

\* C9: perpendicular() returns (-y, x), which is what rotatedBy returns for
\* the quarter turn (cos = 0, sin = 1); and rotatedBy returns
\* (c*x - s*y, s*x + c*y), both coordinates computed from the receiver's x
\* and y, c and s being cos and sin of the angle converted to T.
C9_Perpendicular ==
    /\ (status = "ok" /\ call.name = "perpendicular") =>
          /\ ret = Vector2(NegT(Lhs.y), Lhs.x)
          /\ ~HasTrap(rotatedBy(Lhs, QuarterTurn)) /\ ret = rotatedBy(Lhs, QuarterTurn)
    /\ (status = "ok" /\ call.name = "rotatedBy") =>
          LET c == ToT(TruncDiv(cos(call.angle), Unit))
              s == ToT(TruncDiv(sin(call.angle), Unit))
          IN  /\ ret = Vector2(SubT(MulT(c, Lhs.x), MulT(s, Lhs.y)),
                               AddT(MulT(s, Lhs.x), MulT(c, Lhs.y)))
              /\ call.angle = QuarterTurn =>
                    /\ c = 0 /\ s = 1
                    /\ ret = perpendicular(Lhs)
                    /\ ret = Vector2(Wrapped(-Lhs.y), Lhs.x)

\* rotatedBy returned for the quarter turn on a vector with two non-zero
\* coordinates, where computing y from the new x would have given another y.
C9_Witness ==
    /\ status = "ok"
    /\ call.name = "rotatedBy"
    /\ call.angle = QuarterTurn
    /\ Lhs.x # 0 /\ Lhs.y # 0
    /\ Lhs.x # Wrapped(-Lhs.y)

\* C10: withPolarAngle and rotatedBy, called on (0, 0) with any angle, return
\* (0, 0); neither fails an assertion nor ends in another way.
C10_ZeroFixedPoint ==
    (/\ status # "ready" /\ call.name \in {"withPolarAngle", "rotatedBy"}
     /\ IsZero(Lhs)) =>
        /\ status = "ok"
        /\ Equal(ret, Vector2Default)

\* withPolarAngle returned for (0, 0) and an angle whose cos and sin are
\* both other than 0.
C10_Witness ==
    /\ status = "ok"
    /\ call.name = "withPolarAngle"
    /\ IsZero(Lhs)
    /\ cos(call.angle) < 0 /\ sin(call.angle) > 0

\* c*c + s*s in T, c and s being the coefficients rotatedBy holds for angle.
CoefficientNorm(angle) ==
    LET c == ToT(TruncDiv(cos(angle), Unit))
        s == ToT(TruncDiv(sin(angle), Unit))
    IN  AddT(MulT(c, c), MulT(s, s))

\* C11: whenever the coefficients c and s that rotatedBy holds satisfy
\* c*c + s*s = 1 in T, the vector it returns has the lengthSq() of the
\* receiver (both evaluate to the same value, or both stop on the same
\* overflow).
C11_RotationKeepsLengthSq ==
    (/\ status = "ok" /\ call.name = "rotatedBy"
     /\ CoefficientNorm(call.angle) = 1) =>
        lengthSq(ret) = lengthSq(Lhs)

\* rotatedBy returned another vector than the receiver, with coefficients of
\* norm 1, for a receiver with two different non-zero coordinates whose
\* lengthSq() evaluates.
C11_Witness ==
    /\ status = "ok"
    /\ call.name = "rotatedBy"
    /\ CoefficientNorm(call.angle) = 1
    /\ Lhs.x # 0 /\ Lhs.y # 0 /\ Lhs.x # Lhs.y
    /\ ret # Lhs
    /\ lengthSq(Lhs) # Trap

\* The arithmetic of v.withLength(k) stays within T.
ScalingInRange(v, k) ==
    /\ InRange(SumOfSquares(v))
    /\ InRange(v.x * k) /\ InRange(v.y * k)

\* The arithmetic of v.withLength(k) stays within T and loses nothing: the
\* length of v is a whole number that divides both scaled coordinates.
ScalingExact(v, k) ==
    /\ ~IsZero(v)
    /\ ScalingInRange(v, k)
    /\ LET r == Isqrt(SumOfSquares(v))
       IN  /\ r * r = SumOfSquares(v)
           /\ (v.x * k) % r = 0 /\ (v.y * k) % r = 0

\* w has magnitude |k|, is parallel to v, and points as v for k > 0 and
\* against v for k < 0 (squares and products without the limits of T).
Rescaled(w, v, k) ==
    /\ SumOfSquares(w) = k * k
    /\ w.x * v.y - w.y * v.x = 0
    /\ k > 0 => SumOfProducts(w, v) > 0
    /\ k < 0 => SumOfProducts(w, v) < 0

C13_DivisorNonZero ==
    /\ (/\ status \in {"ok", "trap"}
        /\ call.name \in {"normalized", "withLength"}) =>
          /\ lengthSq(Lhs) # 0
          /\ length(Lhs) # 0
    /\ (status \in {"ok", "trap"} /\ call.name = "projectedOnto") =>
          lengthSq(Rhs) # 0
    /\ (status # "ready" /\ call.name \in {"normalized", "withLength"}) =>
          (lengthSq(Lhs) = 0 <=> IsZero(Lhs))

=============================================================================
